---------------------------- MODULE Spec2Model ----------------------------
(***************************************************************************)
(* Model of investment_calculator.py: the InvestmentCalculator class       *)
(* (load_config, add_asset, calculate_entry_points, display_entry_points)  *)
(* and the interactive menu of main().                                     *)
(*                                                                         *)
(* Python's decimal.Decimal is modelled by what it computes: a value is a  *)
(* sign, a coefficient (a natural number of any size, kept as a sequence   *)
(* of base-BASE limbs) and an exponent; every arithmetic result is rounded *)
(* half-even to PREC significant digits, as the default context does.      *)
(* Strings are sequences of one-character strings, so that Decimal(str(x)) *)
(* is a real parse.                                                        *)
(***************************************************************************)
EXTENDS Integers, Sequences, FiniteSets, TLC

\* decimal.getcontext().prec = 28
PREC == 28

(***************************************************************************)
(* Natural numbers of any size: sequences of limbs in base BASE, least     *)
(* significant first, no leading zero limb, <<>> for zero.  The operators  *)
(* avoid deep recursion: carries are resolved by look-ahead.               *)
(***************************************************************************)
BASE == 10000
LIMB == 4

\* Op(v), the value v computed before the operator is applied to it
With(v, Op(_)) == CHOOSE r \in {Op(x) : x \in {v}} : TRUE

Pow10(k) == CASE k = 0 -> 1 [] k = 1 -> 10 [] k = 2 -> 100 [] k = 3 -> 1000
              [] k = 4 -> 10000

\* limb i of c, 0 beyond its length
L(c, i) == IF i >= 1 /\ i <= Len(c) THEN c[i] ELSE 0

Max2(x, y) == IF x > y THEN x ELSE y

\* c as an explicit sequence of n limbs
Limbs(c, n) == SubSeq([i \in 1..n |-> L(c, i)], 1, n)

NStrip(c) ==
    LET nz == {i \in 1..Len(c) : c[i] # 0}
    IN  IF c = <<>> \/ nz = {} THEN <<>>
        ELSE SubSeq(c, 1, CHOOSE i \in nz : \A j \in nz : j <= i)

NOfInt(n) == NStrip(<<n % BASE, (n \div BASE) % BASE, n \div (BASE * BASE)>>)

\* for values below 2^31
NToInt(c) == L(c, 1) + BASE * L(c, 2) + BASE * BASE * L(c, 3)

\* number of decimal digits of c
NDigits(c) ==
    IF c = <<>> THEN 0
    ELSE LET t == c[Len(c)]
         IN  LIMB * (Len(c) - 1)
               + (IF t < 10 THEN 1 ELSE IF t < 100 THEN 2 ELSE IF t < 1000 THEN 3 ELSE 4)

\* -1, 0, 1 as a < b, a = b, a > b
NCmp(a, b) ==
    IF Len(a) < Len(b) THEN -1
    ELSE IF Len(a) > Len(b) THEN 1
    ELSE LET df == {i \in 1..Len(a) : a[i] # b[i]}
         IN  IF df = {} THEN 0
             ELSE LET m == CHOOSE i \in df : \A j \in df : j <= i
                  IN  IF a[m] < b[m] THEN -1 ELSE 1

NAdd(a, b) ==
    IF a = <<>> THEN b ELSE IF b = <<>> THEN a ELSE
    LET n   == Max2(Len(a), Len(b)) + 1
        s   == Limbs([i \in 1..n |-> L(a, i) + L(b, i)], n)
        gen == {j \in 1..n : s[j] >= BASE}
        cin == [i \in 1..n |->
                  IF \E j \in gen : j < i /\ \A k \in (j + 1)..(i - 1) : s[k] = BASE - 1
                  THEN 1 ELSE 0]
    IN  NStrip(SubSeq([i \in 1..n |-> (s[i] + cin[i]) % BASE], 1, n))

\* a - b for a >= b
NSub(a, b) ==
    IF b = <<>> THEN a ELSE
    LET n   == Len(a)
        d   == Limbs([i \in 1..n |-> a[i] - L(b, i)], n)
        gen == {j \in 1..n : d[j] < 0}
        bin == [i \in 1..n |->
                  IF \E j \in gen : j < i /\ \A k \in (j + 1)..(i - 1) : d[k] = 0
                  THEN 1 ELSE 0]
    IN  NStrip(SubSeq([i \in 1..n |-> (d[i] - bin[i] + BASE) % BASE], 1, n))

\* a * m for 0 <= m < BASE
NMulSmall(a, m) ==
    IF a = <<>> \/ m = 0 THEN <<>> ELSE
    LET n == Len(a)
        t == Limbs([i \in 1..n |-> a[i] * m], n)
    IN  NAdd(NStrip(SubSeq([i \in 1..n |-> t[i] % BASE], 1, n)),
             NStrip(SubSeq([i \in 1..(n + 1) |-> IF i = 1 THEN 0 ELSE t[i - 1] \div BASE],
                           1, n + 1)))

\* a * 10^k
NShl(a, k) ==
    IF a = <<>> \/ k = 0 THEN a
    ELSE LET m == k \div LIMB
             n == Len(a) + m + 1
             t == NMulSmall(a, Pow10(k % LIMB))
         IN  NStrip(SubSeq([i \in 1..n |-> L(t, i - m)], 1, n))

\* a mod 10^k
NLow(a, k) ==
    IF a = <<>> THEN <<>> ELSE
    LET m == k \div LIMB
        n == m + 1
    IN  NStrip(SubSeq([i \in 1..n |->
                         IF i <= m THEN L(a, i) ELSE L(a, i) % Pow10(k % LIMB)], 1, n))

\* a div 10^k
NShr(a, k) ==
    IF a = <<>> \/ k = 0 THEN a ELSE
    LET m == k \div LIMB
        p == Pow10(k % LIMB)
        n == Max2(Len(a) - m, 0)
    IN  NStrip(SubSeq([i \in 1..n |->
                         L(a, i + m) \div p + (L(a, i + m + 1) % p) * (BASE \div p)],
                      1, n))

\* the sum of a[i] * b[k + 1 - i] over i in lo..hi
RECURSIVE Column(_, _, _, _, _)
Column(a, b, k, lo, hi) ==
    IF lo > hi THEN 0
    ELSE a[lo] * b[k + 1 - lo] + Column(a, b, k, lo + 1, hi)

\* a * b, the shorter factor of at most 21 limbs
NMul(a, b) ==
    IF a = <<>> \/ b = <<>> THEN <<>>
    ELSE
    LET n   == Len(a) + Len(b)
        col == Limbs([k \in 1..n |->
                        Column(a, b, k, Max2(1, k + 1 - Len(b)),
                               IF k < Len(a) THEN k ELSE Len(a))], n)
        x0  == NStrip(SubSeq([k \in 1..n |-> col[k] % BASE], 1, n))
        x1  == NStrip(SubSeq([k \in 1..(n + 1) |->
                                (L(col, k - 1) \div BASE) % BASE], 1, n + 1))
        x2  == NStrip(SubSeq([k \in 1..(n + 2) |->
                                L(col, k - 2) \div (BASE * BASE)], 1, n + 2))
    IN  NAdd(NAdd(x0, x1), x2)

RECURSIVE NPow(_, _)
NPow(a, k) == IF k = 0 THEN <<1>> ELSE NMul(NPow(a, k - 1), a)

\* One step of long division (Knuth's algorithm D): r < b, b normalised
\* (top limb >= BASE / 2); the next quotient limb of r * BASE + d.
\* the estimate hi of the quotient limb of r1 by b is at most 2 too large
DivDigit(r1, b, hi) ==
    hi - Cardinality({x \in {hi - 1, hi} : x > 0 /\ NCmp(NMulSmall(b, x), r1) > 0})

DivRemainder(r1, b, q) == [q |-> q, r |-> NSub(r1, NMulSmall(b, q))]

DivEstimate(r1, b) ==
    LET est == (L(r1, Len(b) + 1) * BASE + L(r1, Len(b))) \div b[Len(b)]
    IN  DivRemainder(r1, b, DivDigit(r1, b, IF est > BASE - 1 THEN BASE - 1 ELSE est))

DivStep(r, d, b) == DivEstimate(IF r = <<>> /\ d = 0 THEN <<>> ELSE <<d>> \o r, b)

\* the quotient limb s put below the quotient limbs q found before it
DivCons(s, q) == [q |-> <<s.q>> \o q, r |-> s.r]

\* long division by b of the limbs i, i - 1, .. 1 of a, after the steps p for
\* the limbs above them (p is computed before the next step is taken)
RECURSIVE NDivRec(_, _, _, _)
NDivRec(a, b, i, p) ==
    IF i < 1 \/ Len(p.q) < 0 THEN p
    ELSE NDivRec(a, b, i - 1, DivCons(DivStep(p.r, a[i], b), p.q))

DivResult(s) == [q |-> NStrip(s.q), exact |-> s.r = <<>>]

\* the division of an by a normalised bn: the limbs above `top` are the first
\* remainder
DivNormalised(an, bn, top) ==
    DivResult(NDivRec(an, bn, top, [q |-> <<>>, r |-> NStrip(SubSeq(an, top + 1, Len(an)))]))

\* a div b, and whether a mod b is zero, for b # 0
NDivMod(a, b) ==
    LET f == BASE \div (b[Len(b)] + 1)
    IN  With(NMulSmall(b, f),
             LAMBDA bn : With(NMulSmall(a, f),
                              LAMBDA an : DivNormalised(an, bn,
                                                        Max2(Len(an) - Len(bn) + 1, 0))))

\* floor(sqrt(t)) for 0 <= t < 10^8
ISqrt(t) ==
    LET h == CHOOSE d \in 0..99 :
               (100 * d) * (100 * d) <= t /\ t < (100 * d + 100) * (100 * d + 100)
    IN  CHOOSE r \in (100 * h)..(100 * h + 99) : r * r <= t /\ t < (r + 1) * (r + 1)

\* one step of Newton's iteration for floor(sqrt(a))
NSqrtStep(a, x) == NShr(NMulSmall(NAdd(x, NDivMod(a, x).q), 5), 1)

\* Newton's iteration from x >= floor(sqrt(a)), y the step after x
RECURSIVE NSqrtRec(_, _, _)
NSqrtRec(a, x, y) ==
    IF NCmp(y, x) >= 0 THEN x ELSE NSqrtRec(a, y, NSqrtStep(a, y))

SqrtResult(a, q) == [q |-> q, exact |-> NCmp(NMul(q, q), a) = 0]

\* the first iterate: above the root of the leading 7 or 8 digits, j digits up
SqrtGuess(a, j) == NShl(NOfInt(ISqrt(NToInt(NShr(a, 2 * j))) + 1), j)

NSqrt(a) ==
    IF a = <<>> THEN SqrtResult(a, <<>>)
    ELSE With(SqrtGuess(a, IF NDigits(a) > 8 THEN (NDigits(a) - 7) \div 2 ELSE 0),
              LAMBDA x0 : With(NSqrtRec(a, x0, NSqrtStep(a, x0)),
                               LAMBDA q : SqrtResult(a, q)))

(***************************************************************************)
(* decimal.Decimal: finite values, the default context (prec = PREC,       *)
(* rounding = ROUND_HALF_EVEN, traps on InvalidOperation, DivisionByZero   *)
(* and Overflow).                                                          *)
(***************************************************************************)
Dec(s, c, e) == [s |-> s, c |-> c, e |-> e]

DecOfInt(n) == IF n < 0 THEN Dec(1, NOfInt(-n), 0) ELSE Dec(0, NOfInt(n), 0)

DNeg(a) == Dec(1 - a.s, a.c, a.e)

\* c without its last `drop` decimal digits (drop >= 1), rounded in the given mode
NRound(c, drop, mode) ==
    IF c = <<>> THEN <<>> ELSE
    LET keep == NShr(c, drop)
        o    == NCmp(NLow(c, drop), NShl(<<5>>, drop - 1))
        up   == IF mode = "ROUND_HALF_UP" THEN o >= 0
                ELSE o > 0 \/ (o = 0 /\ L(keep, 1) % 2 = 1)
    IN  IF up THEN NAdd(keep, <<1>>) ELSE keep

\* Decimal._fix: round a result to the context precision
\* a rounded coefficient r that carried into one more digit loses its last zero
DFixCarry(s, r, e) ==
    IF NDigits(r) > PREC THEN Dec(s, NShr(r, 1), e + 1) ELSE Dec(s, r, e)

DFix(s, c, e) ==
    IF NDigits(c) <= PREC THEN Dec(s, c, e)
    ELSE DFixCarry(s, NRound(c, NDigits(c) - PREC, "ROUND_HALF_EVEN"),
                   e + NDigits(c) - PREC)

DMul(a, b) ==
    IF a.c = <<>> \/ b.c = <<>> THEN Dec((a.s + b.s) % 2, <<>>, a.e + b.e)
    ELSE DFix((a.s + b.s) % 2, NMul(a.c, b.c), a.e + b.e)

\* the sum of sa * ca and sb * cb at the common exponent e
DAddAligned(sa, ca, sb, cb, e) ==
    LET o == NCmp(ca, cb)
    IN  DFix(IF sa = sb THEN sa ELSE IF o = 0 THEN 0 ELSE IF o > 0 THEN sa ELSE sb,
             IF sa = sb THEN NAdd(ca, cb)
             ELSE IF o >= 0 THEN NSub(ca, cb) ELSE NSub(cb, ca),
             e)

DAdd(a, b) ==
    LET e == IF a.e < b.e THEN a.e ELSE b.e
    IN  IF a.c = <<>> /\ b.c = <<>> THEN Dec(IF a.s = b.s THEN a.s ELSE 0, <<>>, e)
        ELSE DAddAligned(a.s, NShl(a.c, a.e - e), b.s, NShl(b.c, b.e - e), e)

DSub(a, b) == DAdd(a, DNeg(b))

\* how many of the last decimal digits of c # 0 are zeros, at most max
TrailingZeros(c, max) ==
    LET z == {k \in 0..max : NLow(c, k) = <<>>}
    IN  CHOOSE k \in z : \A j \in z : j <= k

\* Decimal.__truediv__ for a non-zero divisor: the quotient to PREC + 1 digits
\* with a sticky last digit (an exact quotient is brought back towards the
\* ideal exponent), then _fix
DDivStrip(s, coeff, z, exp) == DFix(s, NShr(coeff, z), exp + z)

\* qr the integer quotient of the coefficients, the dividend shifted by shift
DDivQuotient(s, qr, shift, exp) ==
    IF qr.exact
    THEN DDivStrip(s, qr.q, IF shift > 0 /\ qr.q # <<>>
                            THEN TrailingZeros(qr.q, shift) ELSE 0, exp)
    ELSE DFix(s, IF L(qr.q, 1) % 5 = 0 THEN NAdd(qr.q, <<1>>) ELSE qr.q, exp)

DDiv(a, b) ==
    IF a.c = <<>> THEN Dec((a.s + b.s) % 2, <<>>, a.e - b.e)
    ELSE
    LET shift == NDigits(b.c) - NDigits(a.c) + PREC + 1
    IN  With(NDivMod(IF shift >= 0 THEN NShl(a.c, shift) ELSE a.c,
                     IF shift >= 0 THEN b.c ELSE NShl(b.c, -shift)),
             LAMBDA qr : DDivQuotient((a.s + b.s) % 2, qr, shift, a.e - b.e - shift))

\* the exception a / b raises, "" when none: 0/0 is InvalidOperation
\* (DivisionUndefined), x/0 is DivisionByZero; both are trapped
DivRaises(a, b) ==
    IF b.c # <<>> THEN ""
    ELSE IF a.c = <<>> THEN "InvalidOperation" ELSE "DivisionByZero"

\* twice the value of a Decimal, when that is a whole number below 2^31
DHalves(a) ==
    LET t == NMulSmall(a.c, 2)
    IN  IF a.e >= 0 THEN NToInt(NShl(t, a.e)) ELSE NToInt(NShr(t, -a.e))

\* Decimal.__pow__ for a positive base and an exponent h/2, h >= 0: the exact
\* power when h is even, else the square root of x^h; rounded to PREC digits.
\* The root is taken of the leading 2 * (PREC + 1) digits, the rest being sticky.
\* sq the root of the leading digits, lo the digits left out of it
DPowRound(sq, lo, e) ==
    DFix(0, NAdd(NShl(sq.q, 1), IF sq.exact /\ lo = <<>> THEN <<>> ELSE <<1>>), e)

\* the root of y1 * 10^e1, e1 even, taken of y1 scaled by 10^(2k)
DPowScaled(y1, e1, k) ==
    With(IF k >= 0 THEN NShl(y1, 2 * k) ELSE NShr(y1, -2 * k),
         LAMBDA y2 : With(NSqrt(y2),
                          LAMBDA sq : DPowRound(sq, IF k >= 0 THEN <<>> ELSE NLow(y1, -2 * k),
                                                e1 \div 2 - k - 1)))

DPowEven(y1, e1) == DPowScaled(y1, e1, PREC + 1 - NDigits(y1) \div 2)

\* the root of y0 * 10^e0
DPowRoot(y0, e0) ==
    IF e0 % 2 = 0 THEN DPowEven(y0, e0) ELSE DPowEven(NShl(y0, 1), e0 - 1)

DPowHalves(x, h) ==
    IF h % 2 = 0 THEN DFix(0, NPow(x.c, h \div 2), x.e * (h \div 2))
    ELSE With(NPow(x.c, h), LAMBDA y0 : DPowRoot(y0, x.e * h))

DPow(x, a) == With(DHalves(a), LAMBDA h : DPowHalves(x, h))

\* Decimal.quantize(Decimal('0.01'), rounding=ROUND_HALF_UP)
Quantize(a) ==
    IF a.e >= -2 THEN Dec(a.s, NShl(a.c, a.e + 2), -2)
    ELSE Dec(a.s, NRound(a.c, -2 - a.e, "ROUND_HALF_UP"), -2)

\* int(Decimal.to_integral_exact()) under the context's ROUND_HALF_EVEN, for
\* results below 2^31
ToIntegralExact(a) ==
    (IF a.s = 1 THEN -1 ELSE 1)
      * (IF a.e >= 0 THEN NToInt(NShl(a.c, a.e))
         ELSE NToInt(NRound(a.c, -a.e, "ROUND_HALF_EVEN")))

(***************************************************************************)
(* Decimal(str(x)): the constructor's parse of a numeric string.  Of the    *)
(* constructor's syntax the model keeps an optional sign, digits and one   *)
(* optional point; the strings of the model hold no exponent, no blank and  *)
(* no Infinity or NaN.  The constructor does not round.                     *)
(***************************************************************************)
DigitChars == <<"0", "1", "2", "3", "4", "5", "6", "7", "8", "9">>

IsDigit(ch) == \E i \in 1..10 : DigitChars[i] = ch

DigitVal(ch) == (CHOOSE i \in 1..10 : DigitChars[i] = ch) - 1

HasSign(str) == str # <<>> /\ str[1] \in {"+", "-"}

Unsigned(str) == IF HasSign(str) THEN Tail(str) ELSE str

\* whether Decimal(str) raises InvalidOperation (ConversionSyntax)
ParseRaises(str) ==
    LET body == Unsigned(str)
    IN  \/ \E i \in 1..Len(body) : ~IsDigit(body[i]) /\ body[i] # "."
        \/ Cardinality({i \in 1..Len(body) : body[i] = "."}) > 1
        \/ ~\E i \in 1..Len(body) : IsDigit(body[i])

\* Decimal(str) for a string it accepts
ParseDecimal(str) ==
    LET body == Unsigned(str)
        dots == {i \in 1..Len(body) : body[i] = "."}
        frac == IF dots = {} THEN 0 ELSE Len(body) - (CHOOSE i \in dots : TRUE)
        ds   == SelectSeq(body, IsDigit)
        n    == (Len(ds) + LIMB - 1) \div LIMB
        dig(i) == IF i <= Len(ds) THEN DigitVal(ds[Len(ds) + 1 - i]) ELSE 0
        c    == NStrip(SubSeq([j \in 1..n |->
                     dig(LIMB * j - 3) + 10 * dig(LIMB * j - 2)
                       + 100 * dig(LIMB * j - 1) + 1000 * dig(LIMB * j)], 1, n))
    IN  Dec(IF HasSign(str) /\ str[1] = "-" THEN 1 ELSE 0, c, -frac)

(***************************************************************************)
(* class InvestmentCalculator                                              *)
(***************************************************************************)
VARIABLES
    pc,      \* where main() is: "start", "menu", "list", "calc", "done", "crashed"
    assets,  \* self.assets
    config,  \* the 'assets' list of the configuration given to load_config
    out      \* what the last operation printed or returned

vars == <<pc, assets, config, out>>

NumericFields ==
    <<"available_funds", "current_price", "max_drop_percentage", "entry_interval">>

\* '1.5', the default of asset_config.get('acceleration_factor', '1.5')
DefaultFactor == <<"1", ".", "5">>

\* The dict literal of load_config for one entry (a function from its keys to
\* strings): the first field, in order of evaluation, that raises decides the
\* exception; "" when none does.
BuildRaises(entry) ==
    LET bad(k) == k \notin DOMAIN entry \/ ParseRaises(entry[k])
        first  == CHOOSE i \in 1..4 :
                     bad(NumericFields[i]) /\ \A j \in 1..(i - 1) : ~bad(NumericFields[j])
    IN  IF "name" \notin DOMAIN entry THEN "KeyError"
        ELSE IF \E i \in 1..4 : bad(NumericFields[i])
        THEN IF NumericFields[first] \notin DOMAIN entry THEN "KeyError"
             ELSE "InvalidOperation"
        ELSE IF "acceleration_factor" \in DOMAIN entry
                  /\ ParseRaises(entry["acceleration_factor"])
        THEN "InvalidOperation"
        ELSE ""

\* the asset that the dict literal builds when nothing raises
BuildAsset(entry) ==
    [name                |-> entry["name"],
     available_funds     |-> ParseDecimal(entry["available_funds"]),
     current_price       |-> ParseDecimal(entry["current_price"]),
     max_drop_percentage |-> ParseDecimal(entry["max_drop_percentage"]),
     entry_interval      |-> ParseDecimal(entry["entry_interval"]),
     acceleration_factor |->
         ParseDecimal(IF "acceleration_factor" \in DOMAIN entry
                      THEN entry["acceleration_factor"] ELSE DefaultFactor)]

\* a load_config whose loop ends at the first entry that raises
RECURSIVE LoadFromAbort(_, _, _)
LoadFromAbort(cfg, i, acc) ==
    IF i > Len(cfg) \/ BuildRaises(cfg[i]) # "" THEN acc
    ELSE LoadFromAbort(cfg, i + 1, Append(acc, BuildAsset(cfg[i])))

\* load_config: the loop over asset_configs from entry i on, acc the assets so
\* far; KeyError and InvalidOperation are caught per entry and reported
RECURSIVE LoadFrom(_, _, _)
LoadFrom(cfg, i, acc) ==
    IF i > Len(cfg) THEN acc
    ELSE IF BuildRaises(cfg[i]) = "" THEN LoadFrom(cfg, i + 1, Append(acc, BuildAsset(cfg[i])))
    ELSE LoadFrom(cfg, i + 1, acc)

load_config(cfg) == LoadFrom(cfg, 1, <<>>)

\* the messages load_config prints, one per entry it drops
LoadMessages(cfg) ==
    LET dropped == SelectSeq([i \in 1..Len(cfg) |-> BuildRaises(cfg[i])],
                             LAMBDA x : x # "")
    IN  dropped

\* add_asset with string arguments: any exception of the conversions is caught;
\* the return value is the new asset's index, or -1
AddRaises(args) ==
    \E k \in {"available_funds", "current_price", "max_drop_percentage",
              "entry_interval", "acceleration_factor"} : ParseRaises(args[k])

add_asset(list, args) ==
    IF AddRaises(args) THEN [assets |-> list, index |-> -1]
    ELSE [assets |-> Append(list, BuildAsset(args)), index |-> Len(list)]

\* list[index] as Python resolves it: a negative index counts from the end;
\* 0 when the index is out of range (IndexError)
Resolve(list, index) ==
    LET k == IF index < 0 THEN Len(list) + index + 1 ELSE index + 1
    IN  IF k >= 1 /\ k <= Len(list) THEN k ELSE 0

D0   == Dec(0, <<>>, 0)
D1   == Dec(0, <<1>>, 0)
D100 == Dec(0, <<100>>, 0)

\* num_entries = int((max_drop_percentage / entry_interval).to_integral_exact())
NumEntries(asset) ==
    ToIntegralExact(DDiv(asset.max_drop_percentage, asset.entry_interval))

\* the exception the body of the first loop raises for entry i (from 0), ""
\* when none: the division i / (num_entries - 1)
WeightRaises(n, i) == DivRaises(DecOfInt(i), DecOfInt(n - 1))

\* a weight that counts the entries from the last one
WeightFalling(asset, n, i) ==
    With(DAdd(D1, DDiv(DecOfInt(n - 1 - i), DecOfInt(n - 1))),
         LAMBDA base : DPow(base, asset.acceleration_factor))

\* weight of entry i (from 0) of n: (1 + i / (n - 1)) ** acceleration_factor
Weight(asset, n, i) ==
    With(DAdd(D1, DDiv(DecOfInt(i), DecOfInt(n - 1))),
         LAMBDA base : DPow(base, asset.acceleration_factor))

\* the list weights after the first loop
Weights(asset, n) == SubSeq([i \in 1..n |-> Weight(asset, n, i - 1)], 1, n)

\* total_weight after the first k weights: total_weight += weight, from 0
RECURSIVE TotalWeight(_, _)
TotalWeight(weights, k) ==
    IF k = 0 THEN D0 ELSE DAdd(TotalWeight(weights, k - 1), weights[k])

NormalizeBy(weights, total) ==
    SubSeq([i \in 1..Len(weights) |-> DDiv(weights[i], total)], 1, Len(weights))

\* normalized_weights = [w / total_weight for w in weights]
Normalize(weights) ==
    With(TotalWeight(weights, Len(weights)), LAMBDA total : NormalizeBy(weights, total))

\* drop_percentage = entry_interval * (i + 1), i + 1 the entry number
DropPercentage(asset, number) == DMul(asset.entry_interval, DecOfInt(number))

\* an entry price with the drop added instead of subtracted
EntryPriceRising(asset, drop) ==
    DMul(asset.current_price, DAdd(D1, DDiv(drop, D100)))

\* entry_price = current_price * (1 - drop_percentage / 100)
EntryPrice(asset, drop) ==
    DMul(asset.current_price, DSub(D1, DDiv(drop, D100)))

\* investment_amount = available_funds * normalized_weights[i]
InvestmentAmount(asset, nw) == DMul(asset.available_funds, nw)

QuantizedFields ==
    {"drop_percentage", "entry_price", "investment_amount", "weight_percentage", "shares"}

NoEntry == [entry_number |-> 0, drop_percentage |-> D0, entry_price |-> D0,
            investment_amount |-> D0, weight_percentage |-> D0, shares |-> D0]

\* what one pass of a loop body gives: the exception it raises, or its entry
Raises(exc) == [raised |-> exc, entry |-> NoEntry]
Gives(entry) == [raised |-> "", entry |-> entry]

\* entry_points.append({...}): every value quantized to two places
EntryDict(number, drop, price, amount, weight, shares) ==
    [entry_number      |-> number,
     drop_percentage   |-> Quantize(drop),
     entry_price       |-> Quantize(price),
     investment_amount |-> Quantize(amount),
     weight_percentage |-> Quantize(weight),
     shares            |-> Quantize(shares)]

\* quantize raises InvalidOperation when its result needs more than PREC digits
EntryQuantized(entry) ==
    IF \E f \in QuantizedFields : NDigits(entry[f].c) > PREC
    THEN Raises("InvalidOperation")
    ELSE Gives(entry)

\* shares = investment_amount / entry_price, then the dict
EntryShares(number, drop, price, amount, nw) ==
    IF DivRaises(amount, price) # "" THEN Raises(DivRaises(amount, price))
    ELSE With(DDiv(amount, price),
              LAMBDA shares : EntryQuantized(EntryDict(number, drop, price, amount,
                                                       DMul(nw, D100), shares)))

EntryPriced(asset, number, drop, nw) ==
    With(EntryPrice(asset, drop),
         LAMBDA price : With(InvestmentAmount(asset, nw),
                             LAMBDA amount : EntryShares(number, drop, price, amount, nw)))

\* the body of the second loop for entry `number` (from 1), its normalized
\* weight nw
EntryPoint(asset, number, nw) ==
    With(DropPercentage(asset, number), LAMBDA drop : EntryPriced(asset, number, drop, nw))

\* the least element of a non-empty set of numbers
Least(S) == CHOOSE i \in S : \A j \in S : i <= j

Returned(entries) == [raised |-> "", entries |-> entries]
Raised(exc) == [raised |-> exc, entries |-> <<>>]

\* the passes rs of the second loop in order: the first exception ends the
\* call, else the entries are returned
Collect(rs) ==
    LET bad == {i \in 1..Len(rs) : rs[i].raised # ""}
    IN  IF bad # {} THEN Raised(rs[Least(bad)].raised)
        ELSE Returned(SubSeq([i \in 1..Len(rs) |-> rs[i].entry], 1, Len(rs)))

EntryPoints(asset, n, nws) ==
    With(SubSeq([i \in 1..n |-> EntryPoint(asset, i, nws[i])], 1, n), Collect)

\* calculate_entry_points from num_entries on; range(n) is empty for n <= 0
\* and the result is then the empty list
CalcEntries(asset, n) ==
    LET badw == {i \in 0..(n - 1) : WeightRaises(n, i) # ""}
    IN  IF n <= 0 THEN Returned(<<>>)
        ELSE IF badw # {} THEN Raised(WeightRaises(n, Least(badw)))
        ELSE With(Weights(asset, n),
                  LAMBDA weights : With(Normalize(weights),
                                        LAMBDA nws : EntryPoints(asset, n, nws)))

\* calculate_entry_points for an asset of the list: the entry points it
\* returns, or the exception it raises to its caller
calculate_entry_points(asset) ==
    IF DivRaises(asset.max_drop_percentage, asset.entry_interval) # ""
    THEN Raised(DivRaises(asset.max_drop_percentage, asset.entry_interval))
    ELSE With(NumEntries(asset), LAMBDA n : CalcEntries(asset, n))

\* sum(entry[field] for entry in entry_points), over the first k entries
RECURSIVE SumField(_, _, _)
SumField(entries, field, k) ==
    IF k = 0 THEN D0 ELSE DAdd(SumField(entries, field, k - 1), entries[k][field])

NoDisplay == [raised |-> "", shown |-> 0, text |-> "", entries |-> <<>>,
              total_investment |-> D0, total_shares |-> D0]

\* display_entry_points once self.assets[asset_index] is asset k of the list
\* and r the result of calculate_entry_points
Display(k, r) ==
    IF r.raised # "" THEN [NoDisplay EXCEPT !.raised = r.raised]
    ELSE IF r.entries = <<>>
    THEN [NoDisplay EXCEPT !.shown = k, !.text = "no entry points"]
    ELSE [raised |-> "", shown |-> k, text |-> "table", entries |-> r.entries,
          total_investment |->
              Quantize(SumField(r.entries, "investment_amount", Len(r.entries))),
          total_shares |-> Quantize(SumField(r.entries, "shares", Len(r.entries)))]

\* display_entry_points(asset_index): what it prints (the asset shown, by its
\* place in the list, the table and the totals), or the exception it raises
display_entry_points(list, index) ==
    IF Resolve(list, index) = 0 THEN [NoDisplay EXCEPT !.raised = "IndexError"]
    ELSE With(calculate_entry_points(list[Resolve(list, index)]),
              LAMBDA r : Display(Resolve(list, index), r))

(***************************************************************************)
(* export_to_json: calculate_entry_points for every asset in order; the    *)
(* first exception ends the call before the file is written.               *)
(***************************************************************************)
ExportData(list) ==
    SubSeq([i \in 1..Len(list) |-> calculate_entry_points(list[i])], 1, Len(list))

\* the exception export_to_json raises given the results rs, "" when none
ExportRaises(rs) ==
    LET bad == {i \in 1..Len(rs) : rs[i].raised # ""}
    IN  IF bad = {} THEN "" ELSE rs[Least(bad)].raised

(***************************************************************************)
(* main(): the interactive menu.  Each action is one pass through the      *)
(* loop for one choice and the inputs it reads.                            *)
(***************************************************************************)
\* what an operation printed: op names it; index is add_asset's return value;
\* reported is the line "asset added"; display is what display_entry_points
\* printed; messages are the other lines; result is a returned value
NoOut == [op |-> "none", index |-> 0, reported |-> FALSE, display |-> NoDisplay,
          messages |-> <<>>, result |-> Returned(<<>>)]

\* bounds of the model
MaxAssets   == 2
MaxConfig   == 2
MaxDrop     == 7
MaxInterval == 4

\* str(k) for 0 <= k < 1000
IntStr(k) ==
    IF k < 10 THEN <<DigitChars[k + 1]>>
    ELSE IF k < 100 THEN <<DigitChars[(k \div 10) + 1], DigitChars[(k % 10) + 1]>>
    ELSE <<DigitChars[(k \div 100) + 1], DigitChars[((k \div 10) % 10) + 1],
           DigitChars[(k % 10) + 1]>>

\* int(str) raises ValueError
IntRaises(str) == ParseRaises(str) \/ \E i \in 1..Len(str) : str[i] = "."

\* what the operator types
Names         == {<<"A">>}
FundsTyped    == {<<"1", "0", "0">>, <<"a", "b", "c">>}
PriceTyped    == {<<"1", "0">>}
DropTyped     == {<<"1", "0">>}
IntervalTyped == {<<"5">>, <<"1", "0">>}
FactorTyped   == {<<>>, <<"2">>}
ChoiceTyped   == {<<>>, <<"x">>, <<"0">>} \cup {IntStr(k) : k \in 1..(MaxAssets + 1)}

\* choice '1': the prompts, add_asset, the report and display_entry_points,
\* all inside try/except Exception
ChooseAdd(name, funds, price, drop, interval, factor) ==
    /\ pc = "menu"
    /\ Len(assets) < MaxAssets
    /\ \E r \in {add_asset(assets,
                           [name                |-> name,
                            available_funds     |-> funds,
                            current_price       |-> price,
                            max_drop_percentage |-> drop,
                            entry_interval      |-> interval,
                            acceleration_factor |->
                                IF factor = <<>> THEN DefaultFactor ELSE factor])} :
         \E d \in {display_entry_points(r.assets, r.index)} :
            /\ assets' = r.assets
            /\ out' = [NoOut EXCEPT !.op = "add", !.index = r.index, !.reported = TRUE,
                                    !.display = IF d.raised = "" THEN d ELSE NoDisplay,
                                    !.messages = IF d.raised = "" THEN <<>>
                                                 ELSE <<"error adding asset", d.raised>>]
    /\ UNCHANGED <<pc, config>>

\* choice '2': the list of names, or the line that there is none
ChooseList ==
    /\ pc = "menu"
    /\ pc' = IF assets = <<>> THEN "menu" ELSE "list"
    /\ out' = [NoOut EXCEPT !.op = "names",
                            !.messages =
                                IF assets = <<>> THEN <<"no assets yet">>
                                ELSE SubSeq([i \in 1..Len(assets) |-> assets[i].name],
                                            1, Len(assets))]
    /\ UNCHANGED <<assets, config>>

\* the inner loop of choice '2' for one input: Enter returns to the menu; only
\* ValueError is caught, so an exception of display_entry_points ends main()
ListSelect(choice) ==
    /\ pc = "list"
    /\ IF choice = <<>> THEN pc' = "menu" /\ out' = NoOut
       ELSE IF IntRaises(choice)
       THEN pc' = pc /\ out' = [NoOut EXCEPT !.op = "show",
                                             !.messages = <<"enter a valid number">>]
       ELSE \E index \in {ToIntegralExact(ParseDecimal(choice)) - 1} :
              IF ~(0 <= index /\ index < Len(assets))
              THEN pc' = pc /\ out' = [NoOut EXCEPT !.op = "show",
                                                    !.messages = <<"invalid asset number">>]
              ELSE \E d \in {display_entry_points(assets, index)} :
                     IF d.raised # ""
                     THEN pc' = "crashed"
                          /\ out' = [NoOut EXCEPT !.op = "show", !.messages = <<d.raised>>]
                     ELSE pc' = pc /\ out' = [NoOut EXCEPT !.op = "show", !.display = d]
    /\ UNCHANGED <<assets, config>>

\* choice '3': export_to_json to a timestamped file; its exceptions are not
\* caught
ChooseExport ==
    /\ pc = "menu"
    /\ IF assets = <<>>
       THEN pc' = pc /\ out' = [NoOut EXCEPT !.op = "export",
                                             !.messages = <<"no assets yet">>]
       ELSE \E rs \in {ExportData(assets)} :
              IF ExportRaises(rs) # ""
              THEN pc' = "crashed"
                   /\ out' = [NoOut EXCEPT !.op = "export",
                                           !.messages = <<ExportRaises(rs)>>]
              ELSE pc' = pc /\ out' = [NoOut EXCEPT !.op = "export",
                                                    !.messages = <<"exported">>]
    /\ UNCHANGED <<assets, config>>

\* choice '4'
ChooseExit ==
    /\ pc = "menu"
    /\ pc' = "done"
    /\ out' = NoOut
    /\ UNCHANGED <<assets, config>>

\* any other choice
ChooseInvalid ==
    /\ pc = "menu"
    /\ out' = [NoOut EXCEPT !.op = "invalid", !.messages = <<"invalid choice">>]
    /\ UNCHANGED <<pc, assets, config>>

\* main() without --config: InvestmentCalculator() and the menu
Init ==
    /\ pc = "menu"
    /\ assets = <<>>
    /\ config = <<>>
    /\ out = NoOut

Next ==
    \/ \E name \in Names, funds \in FundsTyped, price \in PriceTyped, drop \in DropTyped,
          interval \in IntervalTyped, factor \in FactorTyped :
          ChooseAdd(name, funds, price, drop, interval, factor)
    \/ ChooseList
    \/ \E choice \in ChoiceTyped : ListSelect(choice)
    \/ ChooseExport
    \/ ChooseExit
    \/ ChooseInvalid

Spec == Init /\ [][Next]_vars

(***************************************************************************)
(* main() with --config and without --interactive: load_config on the      *)
(* 'assets' list of the file, then every asset displayed and the export.   *)
(* A configuration entry is a mapping from field names to strings.         *)
(***************************************************************************)
\* the entry e without the field key
Without(e, key) == [k \in DOMAIN e \ {key} |-> e[k]]

FullEntry(name) ==
    [name                |-> name,
     available_funds     |-> <<"1", "0", "0">>,
     current_price       |-> <<"1", "0">>,
     max_drop_percentage |-> <<"1", "0">>,
     entry_interval      |-> <<"5">>,
     acceleration_factor |-> <<"2">>]

\* the entries a configuration may hold
EntriesTyped ==
    {FullEntry(<<"A">>),
     Without(FullEntry(<<"B">>), "acceleration_factor"),
     [FullEntry(<<"C">>) EXCEPT !.acceleration_factor = <<>>],
     Without(FullEntry(<<"D">>), "name"),
     Without(FullEntry(<<"E">>), "current_price"),
     [FullEntry(<<"F">>) EXCEPT !.entry_interval = <<"a", "b", "c">>]}

\* the configurations: up to MaxConfig entries
ConfigsTyped ==
    UNION {[1..n -> EntriesTyped] : n \in 0..MaxConfig}

\* calculator.load_config(config)
LoadConfig ==
    /\ pc = "start"
    /\ pc' = "loaded"
    /\ assets' = load_config(config)
    /\ out' = [NoOut EXCEPT !.op = "load", !.messages = LoadMessages(config)]
    /\ UNCHANGED config

\* the non-interactive branch: without assets a message and return; else
\* display_entry_points for every asset, then export_to_json; no exception is
\* caught here
ShowAll ==
    /\ pc = "loaded"
    /\ IF assets = <<>>
       THEN pc' = "done" /\ out' = [NoOut EXCEPT !.op = "show all",
                                                 !.messages = <<"no valid assets">>]
       ELSE \E ds \in {SubSeq([i \in 1..Len(assets) |->
                                  display_entry_points(assets, i - 1)], 1, Len(assets))} :
              IF \E i \in 1..Len(ds) : ds[i].raised # ""
              THEN pc' = "crashed"
                   /\ out' = [NoOut EXCEPT !.op = "show all",
                                 !.messages = <<ds[Least({i \in 1..Len(ds) :
                                                            ds[i].raised # ""})].raised>>]
              ELSE \E rs \in {ExportData(assets)} :
                     IF ExportRaises(rs) # ""
                     THEN pc' = "crashed"
                          /\ out' = [NoOut EXCEPT !.op = "show all",
                                                  !.messages = <<ExportRaises(rs)>>]
                     ELSE pc' = "done"
                          /\ out' = [NoOut EXCEPT !.op = "show all",
                                                  !.display = ds[Len(ds)],
                                                  !.messages = <<"exported">>]
    /\ UNCHANGED <<assets, config>>

InitLoad ==
    /\ pc = "start"
    /\ assets = <<>>
    /\ config \in ConfigsTyped
    /\ out = NoOut

NextLoad ==
    \/ LoadConfig
    \/ ShowAll

SpecLoad == InitLoad /\ [][NextLoad]_vars

(***************************************************************************)
(* calculate_entry_points on its own: one asset, added by add_asset from   *)
(* the strings below, and one call.                                        *)
(***************************************************************************)
\* max_drop_percentage and entry_interval
DropsTyped ==
    {<<IntStr(d), IntStr(i)>> : d \in 1..MaxDrop, i \in 1..MaxInterval}
      \cup {<<<<"1", "0", "0">>, <<"5", "0">>>>}

\* available_funds and current_price
MoneyTyped ==
    {<<<<"1", "0", "0", "0">>, <<"1", "0", "0">>>>, <<<<"0", ".", "0", "5">>, <<"0", ".", "1">>>>}

\* acceleration_factor
FactorsTyped == {<<"0">>, <<"1", ".", "5">>, <<"2">>}

CalcInputs ==
    {[name                |-> <<"A">>,
      available_funds     |-> m[1],
      current_price       |-> m[2],
      max_drop_percentage |-> d[1],
      entry_interval      |-> d[2],
      acceleration_factor |-> f] : m \in MoneyTyped, d \in DropsTyped, f \in FactorsTyped}

\* calculator.calculate_entry_points(0)
Calculate ==
    /\ pc = "calc"
    /\ pc' = "done"
    /\ out' = [NoOut EXCEPT !.op = "calc", !.result = calculate_entry_points(assets[1])]
    /\ UNCHANGED <<assets, config>>

InitCalc ==
    /\ pc = "calc"
    /\ assets \in {add_asset(<<>>, args).assets : args \in CalcInputs}
    /\ config = <<>>
    /\ out = NoOut

NextCalc == Calculate

SpecCalc == InitCalc /\ [][NextCalc]_vars

(***************************************************************************)
(* The properties.  Decimal values are compared through their difference.  *)
(***************************************************************************)
DLess(a, b) == DSub(a, b).c # <<>> /\ DSub(a, b).s = 1
DLeq(a, b) == ~DLess(b, a)
DEq(a, b) == DSub(a, b).c = <<>>
DAbs(a) == Dec(0, a.c, a.e)

\* the integer part of a Decimal >= 0
Floor(a) == IF a.e >= 0 THEN NToInt(NShl(a.c, a.e)) ELSE NToInt(NShr(a.c, -a.e))

Cent == Dec(0, <<1>>, -2)
OneAndHalf == Dec(0, <<15>>, -1)

\* the asset of SpecCalc, and the outcome of the call once it is made
TheAsset == assets[1]
Called == pc = "done" /\ out.op = "calc"
Result == out.result
Entries == out.result.entries

\* all the numeric fields that the claims require to be > 0 are
Valid(asset) ==
    /\ DLess(D0, asset.available_funds)
    /\ DLess(D0, asset.current_price)
    /\ DLess(D0, asset.max_drop_percentage)
    /\ DLess(D0, asset.entry_interval)

\* some entry's drop_percentage is exactly 100
HitsHundred(asset) ==
    \E k \in 1..NumEntries(asset) : DEq(DropPercentage(asset, k), D100)

\* C1: for a valid asset the number of entry points returned is
\* floor(max_drop_percentage / entry_interval), also when the quotient is not
\* a whole number
C1_CountIsFloor ==
    (Called /\ Valid(TheAsset) /\ Result.raised = "")
        => Len(Entries) = Floor(DDiv(TheAsset.max_drop_percentage,
                                     TheAsset.entry_interval))

\* C2: with 0 < max_drop_percentage < entry_interval the call returns the
\* empty sequence and raises nothing
C2_NarrowIsEmpty ==
    (Called /\ DLess(D0, TheAsset.max_drop_percentage)
            /\ DLess(TheAsset.max_drop_percentage, TheAsset.entry_interval))
        => Result = Returned(<<>>)

\* C3: when the computed number of entries is 1 the call raises nothing and
\* returns one entry, weight_percentage 100.00 and investment_amount the
\* available funds rounded to two places
C3_SingleEntry ==
    (Called /\ Valid(TheAsset) /\ NumEntries(TheAsset) = 1)
        => /\ Result.raised = ""
           /\ Len(Entries) = 1
           /\ Entries[1].weight_percentage = Dec(0, <<0, 1>>, -2)
           /\ Entries[1].investment_amount = Quantize(TheAsset.available_funds)

\* C4: for a valid asset the call raises only when some entry's
\* drop_percentage is exactly 100, and then a division error
C4_RaisesOnlyAtHundred ==
    (Called /\ Valid(TheAsset))
        => IF HitsHundred(TheAsset) THEN Result.raised = "DivisionByZero"
           ELSE Result.raised = ""

\* the sum of the returned investment_amount values
Invested == SumField(Entries, "investment_amount", Len(Entries))

\* C7: for a valid asset with at least one computed entry (and no drop of
\* exactly 100) the call returns amounts whose sum is within 0.01 * the
\* number of entries of available_funds
C7_AmountsSumToFunds ==
    (Called /\ Valid(TheAsset) /\ NumEntries(TheAsset) >= 1
            /\ ~HitsHundred(TheAsset))
        => /\ Result.raised = ""
           /\ DLeq(DAbs(DSub(Invested, TheAsset.available_funds)),
                   DMul(Cent, DecOfInt(NumEntries(TheAsset))))

\* a call that returned at least two entries
ReturnedSeveral == Called /\ Result.raised = "" /\ Len(Entries) >= 2

\* C8: with acceleration_factor > 1 and at least two entries returned, the
\* investment_amount values never decrease from one entry to the next
C8_AmountsNonDecreasing ==
    (ReturnedSeveral /\ DLess(D1, TheAsset.acceleration_factor))
        => \A i \in 1..(Len(Entries) - 1) :
               DLeq(Entries[i].investment_amount, Entries[i + 1].investment_amount)

\* C8 happens: several entries with a factor above 1, the last amount larger
\* than the first
C8_Witness ==
    /\ ReturnedSeveral
    /\ DLess(D1, TheAsset.acceleration_factor)
    /\ DLess(Entries[1].investment_amount, Entries[Len(Entries)].investment_amount)

\* C9 as stated: with current_price > 0 and at least two entries returned,
\* entry_price strictly decreases from one entry to the next
C9_PricesStrictlyDecreasing ==
    (ReturnedSeveral /\ DLess(D0, TheAsset.current_price))
        => \A i \in 1..(Len(Entries) - 1) :
               DLess(Entries[i + 1].entry_price, Entries[i].entry_price)

\* the price step between two consecutive entries before rounding:
\* current_price * entry_interval / 100
PriceStep(asset) == DDiv(DMul(asset.current_price, asset.entry_interval), D100)

\* C9 amended: with current_price > 0 and at least two entries returned,
\* entry_price never increases from one entry to the next, and it strictly
\* decreases when the price step is at least 0.01
C9_PricesNonIncreasing ==
    (ReturnedSeveral /\ DLess(D0, TheAsset.current_price))
        => \A i \in 1..(Len(Entries) - 1) :
               /\ DLeq(Entries[i + 1].entry_price, Entries[i].entry_price)
               /\ DLeq(Cent, PriceStep(TheAsset))
                      => DLess(Entries[i + 1].entry_price, Entries[i].entry_price)

\* C9 happens: a step of at least 0.01 and three entries, each below the one
\* before
C9_Witness ==
    /\ ReturnedSeveral
    /\ DLess(D0, TheAsset.current_price)
    /\ DLeq(Cent, PriceStep(TheAsset))
    /\ Len(Entries) >= 3
    /\ DLess(Entries[2].entry_price, Entries[1].entry_price)
    /\ DLess(Entries[3].entry_price, Entries[2].entry_price)

\* the fields an entry of the configuration must have
RequiredNumeric == {NumericFields[i] : i \in 1..Len(NumericFields)}
RequiredFields == {"name"} \cup RequiredNumeric

\* an entry with every required field, whose numeric fields all parse
WellFormed(entry) ==
    /\ RequiredFields \subseteq DOMAIN entry
    /\ \A k \in (RequiredNumeric \cup {"acceleration_factor"}) \cap DOMAIN entry :
           ~ParseRaises(entry[k])

\* the positions of the well-formed entries of the configuration
Kept == {i \in 1..Len(config) : WellFormed(config[i])}

\* C5: load_config skips every malformed entry without raising and keeps
\* loading: the list is the well-formed entries, converted, in their order,
\* and each skipped entry is reported once
C5_LoadSkipsMalformed ==
    (pc # "start")
        => /\ Len(assets) = Cardinality(Kept)
           /\ \A i \in Kept :
                  assets[Cardinality({j \in Kept : j <= i})] = BuildAsset(config[i])
           /\ pc = "loaded" =>
                  Len(out.messages) = Len(config) - Cardinality(Kept)

\* C5 happens: a malformed entry first, a well-formed one after it, loaded
C5_Witness ==
    /\ pc = "loaded"
    /\ Len(config) = 2
    /\ ~WellFormed(config[1])
    /\ WellFormed(config[2])
    /\ Len(assets) = 1
    /\ assets[1].name = config[2].name

\* an entry with every required field in order and acceleration_factor
\* absent or empty
FactorOmitted(entry) ==
    /\ RequiredFields \subseteq DOMAIN entry
    /\ \A k \in RequiredNumeric : ~ParseRaises(entry[k])
    /\ "acceleration_factor" \in DOMAIN entry => entry.acceleration_factor = <<>>

\* C6: an entry whose acceleration_factor is absent or empty is loaded with
\* the factor 1.5
C6_FactorDefaults ==
    (pc = "loaded")
        => \A i \in 1..Len(config) :
               FactorOmitted(config[i])
                   => \E k \in 1..Len(assets) :
                          /\ assets[k].name = config[i].name
                          /\ assets[k].acceleration_factor = OneAndHalf

\* C10: when add_asset fails (returns -1) the caller neither reports the
\* asset as added nor displays any entry points
C10_FailedAddIsSilent ==
    (out.op = "add" /\ out.index = -1)
        => ~out.reported /\ out.display.shown = 0
=============================================================================
